---- MODULE Spec2Model ----
(***************************************************************************)
(* Number-guessing game: the GameState value type of lib.rs (new, guess)   *)
(* and the two Tauri commands of main.rs (start_game, make_guess) running  *)
(* against the session that main() hands to the Tauri state manager.       *)
(***************************************************************************)
EXTENDS Integers, FiniteSets, Sequences, TLC

\* ------------------------------------------------------------------ bounds
\* Width in bits of the attempts counter. The source's counter is a u32; the
\* model keeps the fixed width and scales it so that the largest value is
\* reached within MaxCalls calls.
AttemptBits == 2
\* guess calls issued on one library session
MaxCalls == 5
\* make_guess commands issued through the boundary
MaxBoundaryCalls == 2
\* sessions a library client creates with GameState::new
MaxSessions == 2
\* make_guess invocations the runtime has in flight at once
MaxTasks == 2

\* ------------------------------------------------------- program constants
TargetLo == 1
TargetHi == 100

Modulus == 2 ^ AttemptBits
AttemptsMax == Modulus - 1

\* Values of the random source that the model draws: both ends of the range,
\* and the values next to the range on either side.
DrawSamples == {0, 1, 100, 101}
\* Guess values a caller passes: 0 (below the range), both ends of the range
\* (each equal to one sampled target and on the far side of the other), and
\* 101 (above the range).
GuessSamples == {0, 1, 100, 101}

Slots == 1 .. MaxSessions
Tasks == 1 .. MaxTasks
Builds == {"debug", "release"}

VARIABLES
    build,       \* overflow checks on ("debug") or off ("release")
    managed,     \* the GameState main() passed to .manage()
    sessions,    \* GameState values owned by a library client, by slot
    live,        \* slots that hold a session
    drawn,       \* history: the random draw each session was created with
    calls,       \* history: guess calls issued on each session
    won,         \* history: sessions on which a guess has equalled the target
    managedDrawn,\* history: the random draw of the managed session
    started,     \* history: the session the latest start_game returned
    hasStarted,  \* history: start_game has returned at least once
    mgCalls,     \* history: make_guess commands issued
    sinceStart,  \* history: make_guess commands issued since that start_game
    last,        \* the latest operation, its inputs and what it returned
    pc,          \* where each make_guess invocation stands
    arg,         \* the guess each invocation was called with
    game_states,  \* each invocation's local `game_state`
    result,      \* each invocation's local `result`
    overlapped   \* history: an invocation cloned while another was in flight

vars == <<build, managed, sessions, live, drawn, calls, won, managedDrawn,
          started, hasStarted, mgCalls, sinceStart, last,
          pc, arg, game_states, result, overlapped>>

\* The locals of the make_guess invocations, and everything else.
taskVars == <<pc, arg, game_states, result, overlapped>>
otherVars == <<sessions, live, drawn, calls, won, managedDrawn,
               started, hasStarted, mgCalls, sinceStart, last>>

\* ------------------------------------------------------------- GameState
\* Variant: the range written from 0 (gen_range(0..=100)).
gen_range_from_zero(lo, hi) == {n \in DrawSamples : lo - 1 <= n /\ n <= hi}

\* rand::thread_rng().gen_range(lo..=hi): any value of the closed range.
gen_range(lo, hi) == {n \in DrawSamples : lo <= n /\ n <= hi}

\* GameState { target_number, attempts: 0 }
new(target_number) == [target_number |-> target_number, attempts |-> 0]

\* #[derive(Clone)]
clone(s) == [target_number |-> s.target_number, attempts |-> s.attempts]

\* Variant: the operands the other way round (self.target_number.cmp(&guess)).
cmp_swapped(a, b) == IF b < a THEN "Less" ELSE IF b > a THEN "Greater" ELSE "Equal"

\* guess.cmp(&self.target_number)
cmp(a, b) == IF a < b THEN "Less" ELSE IF a > b THEN "Greater" ELSE "Equal"

\* The three format! strings: the text around the number, and the number.
format(ordering, attempts) ==
    CASE ordering = "Less" ->
            [before |-> "Too low! Attempt ", number |-> attempts, after |-> ""]
      [] ordering = "Greater" ->
            [before |-> "Too high! Attempt ", number |-> attempts, after |-> ""]
      [] ordering = "Equal" ->
            [before |-> "Congratulations! You guessed the number in ",
             number |-> attempts, after |-> " attempts!"]

NoMessage == [before |-> "", number |-> 0, after |-> ""]

\* Variant: the increment lands on the wrong field (self.target_number += 1).
guess_bumps_target(self, g, b) ==
    LET after == [self EXCEPT !.target_number = self.target_number + 1] IN
    [self |-> after, panicked |-> FALSE,
     message |-> format(cmp(g, after.target_number), after.attempts),
     attempts |-> after.attempts]

\* GameState::guess(&mut self, guess) on a build b. `self.attempts += 1` on a
\* u32 panics on overflow when overflow checks are on and wraps when they are
\* off; a panic unwinds before anything is stored or returned.
guess(self, g, b) ==
    LET sum == self.attempts + 1 IN
    IF sum > AttemptsMax /\ b = "debug"
    THEN [self |-> self, panicked |-> TRUE,
          message |-> NoMessage, attempts |-> 0]
    ELSE LET after == [self EXCEPT !.attempts = sum % Modulus] IN
         [self |-> after, panicked |-> FALSE,
          message |-> format(cmp(g, after.target_number), after.attempts),
          attempts |-> after.attempts]

NoReturn == [panicked |-> FALSE, message |-> NoMessage, attempts |-> 0]
Returned(out) ==
    [panicked |-> out.panicked, message |-> out.message, attempts |-> out.attempts]

Vacant == new(0)

\* No make_guess invocation is in flight.
NoTasks ==
    /\ pc = [t \in Tasks |-> "idle"]
    /\ arg = [t \in Tasks |-> 0]
    /\ game_states = [t \in Tasks |-> Vacant]
    /\ result = [t \in Tasks |-> NoReturn]
    /\ overlapped = FALSE

\* ------------------------------------------------------------------ Init
\* main(): .manage(GameState::new()); no command has run yet.
Init ==
    /\ build \in Builds
    /\ \E t \in gen_range(TargetLo, TargetHi) :
          /\ managed = new(t)
          /\ managedDrawn = t
    /\ sessions = [i \in Slots |-> Vacant]
    /\ live = {}
    /\ drawn = [i \in Slots |-> 0]
    /\ calls = [i \in Slots |-> 0]
    /\ won = {}
    /\ started = Vacant
    /\ hasStarted = FALSE
    /\ mgCalls = 0
    /\ sinceStart = 0
    /\ last = [op |-> "main", slot |-> 0, guess |-> 0, pre |-> Vacant,
               ret |-> NoReturn]
    /\ NoTasks

\* --------------------------------------------------------------- actions
\* A library client calls GameState::new() and keeps the value in slot i.
New(i) ==
    /\ i \notin live
    /\ \E t \in gen_range(TargetLo, TargetHi) :
          /\ sessions' = [sessions EXCEPT ![i] = new(t)]
          /\ drawn' = [drawn EXCEPT ![i] = t]
    /\ live' = live \cup {i}
    /\ calls' = [calls EXCEPT ![i] = 0]
    /\ last' = [op |-> "new", slot |-> i, guess |-> 0, pre |-> Vacant,
                ret |-> NoReturn]
    /\ UNCHANGED <<build, managed, won, managedDrawn, started, hasStarted,
                   mgCalls, sinceStart>>
    /\ UNCHANGED taskVars

\* Variant: the counter is shared by every session (a static, not a field).
GuessShared(i, g) ==
    /\ i \in live
    /\ calls[i] < MaxCalls
    /\ LET out == guess(sessions[i], g, build) IN
          /\ sessions' = [j \in Slots |->
                 IF j = i THEN out.self
                 ELSE IF j \in live
                      THEN [sessions[j] EXCEPT !.attempts = out.self.attempts]
                      ELSE sessions[j]]
          /\ last' = [op |-> "guess", slot |-> i, guess |-> g,
                      pre |-> sessions[i], ret |-> Returned(out)]
    /\ calls' = [calls EXCEPT ![i] = @ + 1]
    /\ won' = IF ~guess(sessions[i], g, build).panicked
                  /\ g = sessions[i].target_number
               THEN won \cup {i} ELSE won
    /\ UNCHANGED <<build, managed, live, drawn, managedDrawn, started,
                   hasStarted, mgCalls, sinceStart>>
    /\ UNCHANGED taskVars

\* A library client calls guess(g) on the session in slot i.
Guess(i, g) ==
    /\ i \in live
    /\ calls[i] < MaxCalls
    /\ LET out == guess(sessions[i], g, build) IN
          /\ sessions' = [sessions EXCEPT ![i] = out.self]
          /\ last' = [op |-> "guess", slot |-> i, guess |-> g,
                      pre |-> sessions[i], ret |-> Returned(out)]
    /\ calls' = [calls EXCEPT ![i] = @ + 1]
    /\ won' = IF ~guess(sessions[i], g, build).panicked
                  /\ g = sessions[i].target_number
               THEN won \cup {i} ELSE won
    /\ UNCHANGED <<build, managed, live, drawn, managedDrawn, started,
                   hasStarted, mgCalls, sinceStart>>
    /\ UNCHANGED taskVars

\* #[tauri::command] start_game: GameState::new() is returned (serialized) to
\* the caller; the managed state is not touched.
StartGame ==
    /\ \E t \in gen_range(TargetLo, TargetHi) : started' = new(t)
    /\ hasStarted' = TRUE
    /\ sinceStart' = 0
    /\ last' = [op |-> "start_game", slot |-> 0, guess |-> 0, pre |-> Vacant,
                ret |-> NoReturn]
    /\ UNCHANGED <<build, managed, sessions, live, drawn, calls, won, managedDrawn,
                   mgCalls>>
    /\ UNCHANGED taskVars

\* Variant: the command guesses on the managed state itself (no clone).
MakeGuessWriteBack(g) ==
    /\ mgCalls < MaxBoundaryCalls
    /\ LET out == guess(managed, g, build) IN
          /\ managed' = out.self
          /\ last' = [op |-> "make_guess", slot |-> 0, guess |-> g,
                      pre |-> managed, ret |-> Returned(out)]
    /\ mgCalls' = mgCalls + 1
    /\ sinceStart' = sinceStart + 1
    /\ UNCHANGED <<build, sessions, live, drawn, calls, won, managedDrawn,
                   started, hasStarted>>
    /\ UNCHANGED taskVars

\* #[tauri::command] make_guess: clone the managed state, guess on the clone,
\* return the result; the clone is dropped.
MakeGuess(g) ==
    /\ mgCalls < MaxBoundaryCalls
    /\ LET game_state == clone(managed)
           out == guess(game_state, g, build) IN
          last' = [op |-> "make_guess", slot |-> 0, guess |-> g,
                   pre |-> game_state, ret |-> Returned(out)]
    /\ mgCalls' = mgCalls + 1
    /\ sinceStart' = sinceStart + 1
    /\ UNCHANGED <<build, managed, sessions, live, drawn, calls, won, managedDrawn,
                   started, hasStarted>>
    /\ UNCHANGED taskVars

\* The application (main.rs): the Tauri runtime dispatches the two commands.
Next ==
    \/ StartGame
    \/ \E g \in GuessSamples : MakeGuess(g)

Spec == Init /\ [][Next]_vars

\* A client of the library crate (lib.rs): it creates GameState values and
\* calls guess on them. main() does not run, so nothing is managed and no
\* GameState exists until the client calls new.
InitLib ==
    /\ build \in Builds
    /\ managed = Vacant
    /\ managedDrawn = 0
    /\ sessions = [i \in Slots |-> Vacant]
    /\ live = {}
    /\ drawn = [i \in Slots |-> 0]
    /\ calls = [i \in Slots |-> 0]
    /\ won = {}
    /\ started = Vacant
    /\ hasStarted = FALSE
    /\ mgCalls = 0
    /\ sinceStart = 0
    /\ last = [op |-> "none", slot |-> 0, guess |-> 0, pre |-> Vacant,
               ret |-> NoReturn]
    /\ NoTasks

NextLib ==
    \/ \E i \in Slots : New(i)
    \/ \E i \in Slots : \E g \in GuessSamples : Guess(i, g)

SpecLib == InitLib /\ [][NextLib]_vars

\* ------------------------------------------- make_guess, statement by statement
\* The runtime dispatches make_guess(state, guess) for invocation t.
Invoke(t, g) ==
    /\ pc[t] = "idle"
    /\ pc' = [pc EXCEPT ![t] = "invoked"]
    /\ arg' = [arg EXCEPT ![t] = g]
    /\ UNCHANGED <<build, managed, game_states, result, overlapped>>
    /\ UNCHANGED otherVars

\* let mut game_state = state.inner().clone();
CloneState(t) ==
    /\ pc[t] = "invoked"
    /\ game_states' = [game_states EXCEPT ![t] = clone(managed)]
    /\ pc' = [pc EXCEPT ![t] = "cloned"]
    /\ overlapped' = (overlapped \/
                      \E u \in Tasks \ {t} : pc[u] \in {"invoked", "cloned", "guessed"})
    /\ UNCHANGED <<build, managed, arg, result>>
    /\ UNCHANGED otherVars

\* Variant: no clone is taken; the guess is made on the managed state itself.
GuessManaged(t) ==
    /\ pc[t] = "cloned"
    /\ LET out == guess(managed, arg[t], build) IN
          /\ managed' = out.self
          /\ result' = [result EXCEPT ![t] = Returned(out)]
    /\ pc' = [pc EXCEPT ![t] = "guessed"]
    /\ UNCHANGED <<build, game_states, arg, overlapped>>
    /\ UNCHANGED otherVars

\* let result = game_state.guess(guess);
GuessLocal(t) ==
    /\ pc[t] = "cloned"
    /\ LET out == guess(game_states[t], arg[t], build) IN
          /\ game_states' = [game_states EXCEPT ![t] = out.self]
          /\ result' = [result EXCEPT ![t] = Returned(out)]
    /\ pc' = [pc EXCEPT ![t] = "guessed"]
    /\ UNCHANGED <<build, managed, arg, overlapped>>
    /\ UNCHANGED otherVars

\* result is returned to the caller and game_state is dropped.
Return(t) ==
    /\ pc[t] = "guessed"
    /\ pc' = [pc EXCEPT ![t] = "done"]
    /\ game_states' = [game_states EXCEPT ![t] = Vacant]
    /\ UNCHANGED <<build, managed, arg, result, overlapped>>
    /\ UNCHANGED otherVars

\* The application with make_guess invocations interleaved at statement level.
NextConc ==
    \/ \E t \in Tasks : \E g \in GuessSamples : Invoke(t, g)
    \/ \E t \in Tasks : CloneState(t)
    \/ \E t \in Tasks : GuessLocal(t)
    \/ \E t \in Tasks : Return(t)

SpecConc == Init /\ [][NextConc]_vars

\* ---------------------------------------------------------------- claims
LowText == "Too low! Attempt "
HighText == "Too high! Attempt "
WonText == "Congratulations! You guessed the number in "

\* The latest operation was a library guess call, or one that returned.
LastIsGuess == last.op = "guess"
LastGuessReturned == last.op = "guess" /\ ~last.ret.panicked

\* C1: every session produced by start (the session main() manages and every
\* session start_game returns, both GameState::new()) has its target in
\* [1, 100] and attempts = 0, whatever value the random source draws.
C1_StartInRange ==
    /\ last.op = "main" =>
          /\ managed.target_number \in 1 .. 100
          /\ managed.attempts = 0
    /\ hasStarted =>
          /\ started.target_number \in 1 .. 100
          /\ started.attempts = 0

\* C1 witness: start_game has just returned a session drawn at the top of the
\* range while the managed session was drawn at the bottom of it.
C1_Witness ==
    /\ last.op = "start_game"
    /\ started.target_number = 100
    /\ managedDrawn = 1

\* C2: after N guess calls on a session its attempts equals N.
C2_AttemptsEqualsCalls ==
    \A i \in live : sessions[i].attempts = calls[i]

\* C3: the message guess returns is "Too low" exactly when G < T, "Too high"
\* exactly when G > T and "Congratulations" exactly when G = T, and it is
\* always one of the three.
C3_MessageMatchesOrder ==
    LastGuessReturned =>
        LET G == last.guess
            T == last.pre.target_number
            text == last.ret.message.before IN
        /\ text \in {LowText, HighText, WonText}
        /\ (text = LowText) <=> (G < T)
        /\ (text = HighText) <=> (G > T)
        /\ (text = WonText) <=> (G = T)

\* C3 witness: a guess above 100 against target 100 was answered "Too high".
C3_Witness ==
    /\ LastGuessReturned
    /\ last.guess = 101
    /\ last.pre.target_number = 100
    /\ last.ret.message.before = HighText

\* C4: the number in the returned message, the attempts returned beside it
\* and the session's attempts after the call are equal, and equal to the
\* attempts before the call plus 1.
C4_ReportsPostIncrement ==
    LastGuessReturned =>
        /\ last.ret.message.number = last.ret.attempts
        /\ last.ret.attempts = sessions[last.slot].attempts
        /\ last.ret.attempts = last.pre.attempts + 1


\* C5: after any sequence of guess calls a session's target is the value
\* drawn when the session was created.
C5_TargetFixed ==
    \A i \in live : sessions[i].target_number = drawn[i]

\* C5 witness: a session that has taken at least three guesses, the latest of
\* them correct.
C5_Witness ==
    /\ LastGuessReturned
    /\ calls[last.slot] >= 3
    /\ last.ret.message.before = WonText

\* C6: a session's attempts never decreases, and changes only by a guess call
\* on that session.
C6_AttemptsMonotonic ==
    [][/\ \A i \in live :
             /\ sessions'[i].attempts >= sessions[i].attempts
             /\ sessions'[i].attempts # sessions[i].attempts =>
                   (last'.op = "guess" /\ last'.slot = i /\ calls'[i] = calls[i] + 1)
       /\ managed'.attempts = managed.attempts]_vars

\* C7: two sessions are independent: a session just created has attempts 0
\* and its own draw whatever happened on the other, and an existing session
\* changes only when a guess call is issued on that very session.
C7_SessionsIndependent ==
    [][/\ \A i \in live' \ live :
             /\ sessions'[i].attempts = 0
             /\ sessions'[i].target_number = drawn'[i]
       /\ \A j \in live :
             sessions'[j] # sessions[j] => calls'[j] # calls[j]]_vars

\* C7 witness: a second session has just been created after two guesses on
\* the first, and it starts at 0 while the first keeps its count.
C7_Witness ==
    /\ live = {1, 2}
    /\ last.op = "new" /\ last.slot = 2
    /\ calls[1] >= 2 /\ sessions[1].attempts >= 2
    /\ sessions[2].attempts = 0

\* C8: once start_game has returned a session, every later make_guess is
\* evaluated against that session: its target decides the message and its
\* attempt count (the guesses made since that start) is the one reported.
C8_GuessUsesStartedSession ==
    (last.op = "make_guess" /\ hasStarted /\ ~last.ret.panicked) =>
        /\ last.ret.message.before =
              format(cmp(last.guess, started.target_number), 0).before
        /\ last.ret.attempts = sinceStart
        /\ last.ret.message.number = sinceStart

\* C9: guess has no failure path: for every guess value and session state it
\* returns one of the three messages, chosen by comparison with the target
\* whether or not the value lies in [1, 100], with the updated attempt count.
C9_GuessAlwaysReturns ==
    LastIsGuess =>
        /\ ~last.ret.panicked
        /\ last.ret.message.before \in {LowText, HighText, WonText}
        /\ last.ret.message.before =
              format(cmp(last.guess, last.pre.target_number), 0).before
        /\ last.ret.attempts = sessions[last.slot].attempts
        /\ last.ret.attempts # last.pre.attempts

\* C10: make_guess never writes to the managed session: after any sequence of
\* make_guess commands it has the target it was created with and attempts 0.
C10_ManagedUntouched ==
    /\ managed.target_number = managedDrawn
    /\ managed.attempts = 0

\* C10 witness: two make_guess commands have returned.
C10_Witness ==
    /\ last.op = "make_guess"
    /\ mgCalls >= 2
    /\ last.ret.attempts = 1

\* C11: guessing does not stop at a win: on a session where a guess has
\* equalled the target, every further guess call is accepted (it returns a
\* message), adds exactly 1 to attempts and is classified by comparison with
\* the same target.
C11_GuessingContinuesAfterWin ==
    [][\A i \in won :
          calls'[i] # calls[i] =>
             /\ ~last'.ret.panicked
             /\ sessions'[i].attempts = sessions[i].attempts + 1
             /\ last'.ret.message.before =
                   format(cmp(last'.guess, drawn[i]), 0).before]_vars

\* C12: through the boundary every make_guess returns attempts 1 and a
\* message reporting attempt 1, whatever make_guess and start_game commands
\* came before it.
C12_BoundaryReportsOne ==
    last.op = "make_guess" =>
        /\ ~last.ret.panicked
        /\ last.ret.attempts = 1
        /\ last.ret.message.number = 1

\* C12 witness: a correct make_guess that came after an earlier make_guess and
\* a start_game still reports attempt 1.
C12_Witness ==
    /\ last.op = "make_guess"
    /\ hasStarted
    /\ mgCalls >= 2
    /\ last.ret.message.before = WonText
    /\ last.ret.message.number = 1

\* C13: make_guess invocations that run concurrently do not interfere: under
\* every interleaving each invocation's result is the one the same call gives
\* when it runs alone against the session main() created, and the managed
\* session is left as it was.
C13_ConcurrentGuessesIsolated ==
    /\ \A t \in Tasks :
          pc[t] \in {"guessed", "done"} =>
             result[t] = Returned(guess(new(managedDrawn), arg[t], build))
    /\ managed = new(managedDrawn)

\* C13 witness: every invocation has returned, with different guesses, and at
\* least one of them took its clone while another was in flight.
C13_Witness ==
    /\ \A t \in Tasks : pc[t] = "done"
    /\ overlapped
    /\ arg[1] # arg[2]
    /\ result[1].attempts = 1 /\ result[2].attempts = 1

\* C14: with attempts a fixed-width unsigned counter, a guess call always
\* leaves attempts strictly greater than it was before the call, also when
\* attempts already holds the largest representable value.
C14_GuessStrictlyIncreases ==
    LastIsGuess => sessions[last.slot].attempts > last.pre.attempts

\* ------------------------------------------------ short of the overflow
\* On a session that has taken at most AttemptsMax guess calls the counter
\* equals the number of calls, every call returned, and the call reported the
\* count before it plus 1.
CountsBelowOverflow ==
    \A i \in live : calls[i] <= AttemptsMax => sessions[i].attempts = calls[i]

ReturnsBelowOverflow ==
    (LastIsGuess /\ calls[last.slot] <= AttemptsMax) =>
        /\ ~last.ret.panicked
        /\ last.ret.message.number = last.ret.attempts
        /\ last.ret.attempts = sessions[last.slot].attempts
        /\ last.ret.attempts = last.pre.attempts + 1

\* Short of the overflow a guess call on a session that has already won is
\* handled like any other: it returns, adds 1 and compares with the target.
AfterWinBelowOverflow ==
    [][\A i \in won :
          (calls'[i] # calls[i] /\ calls'[i] <= AttemptsMax) =>
             /\ ~last'.ret.panicked
             /\ sessions'[i].attempts = sessions[i].attempts + 1
             /\ last'.ret.message.before =
                   format(cmp(last'.guess, drawn[i]), 0).before]_vars

TypeOK ==
    /\ build \in Builds
    /\ live \subseteq Slots
    /\ mgCalls \in 0 .. MaxBoundaryCalls
    /\ \A i \in Slots : calls[i] \in 0 .. MaxCalls
====
